---- MODULE Spec2Model ----
(***************************************************************************)
(* ErgomateDesk (custom_components/ergomate/desk_api.py): the BLE desk     *)
(* controller, its background reconnect task and the transport it drives.  *)
(*                                                                         *)
(* One caller issues the public operations one at a time; the reconnect    *)
(* task (_monitor_connection) and the transport's events interleave with   *)
(* it at every await.  A step of the model is the code that runs between   *)
(* two awaits of one coroutine.                                            *)
(*                                                                         *)
(* Transport sessions (BleakClient objects) are not named individually.    *)
(* client is the status of the object self._client refers to; a coroutine  *)
(* that is awaiting a transport call remembers in callCur / supCur whether *)
(* the object it called is still self._client; leaked counts the sessions  *)
(* that are open while no longer being self._client.                       *)
(*                                                                         *)
(* Heights are kept in tenths of a centimetre (72.0 cm is 720).            *)
(*                                                                         *)
(* Six specifications share the variables.  Spec (LiveSpec with            *)
(* fairness) is the controller from __init__ on.  OpsSpec is the same      *)
(* controller without inbound frames and with the whole command surface:   *)
(* several targets of move_to_height, the timed moves and the four cloud   *)
(* operations.  NotifySpec starts from an armed session with any list of   *)
(* callbacks and any height offset and runs _handle_notification,          *)
(* register_callback and unregister_callback.  CodecSpec applies one       *)
(* function of its arguments alone (the frame codec, the two methods of    *)
(* the callback list) to one input.  OverlapSpec is Spec with a second     *)
(* coroutine that calls connect() while the caller is suspended at an      *)
(* await.  ReentrantSpec is NotifySpec with callbacks that unregister a    *)
(* callback while a frame is being delivered.                              *)
(***************************************************************************)
EXTENDS Integers, Sequences, FiniteSets, TLC

\* ---- bounds ----
MaxLeaked == 1
MaxSubs == 1
MaxHandlers == 2
MaxFrameLen == 5
MaxTarget == 1400
MaxListed == 3
MaxOrphans == 1

\* ---- program constants ----
BACKOFF == 5
POLL == 5
CMD_UP == 32
CMD_DOWN == 64
CMD_STOP == 0
HEADER == 165
RESERVED == 0
TERMINATOR == 255

\* ErgomateDesk(address): the integration never passes a height_offset.
DefaultOffset == 0

Subscribers == 1..MaxSubs
Frames == { <<48, 55, 50, 48>>, <<49, 50, 65, 66>> }

VARIABLES
    is_connected_flag,  \* self._is_connected
    client,             \* self._client: "None" | "pending" | "open" | "down" | "closed"
    armed,              \* start_notify succeeded on the session self._client refers to
    leaked,             \* open sessions that self._client no longer refers to
    is_moving,          \* self._is_moving
    shutdown,           \* self._shutdown
    callbacks,          \* self._callbacks
    raw_height,         \* self._raw_height: <<>> for None, <<h>> for h tenths of a cm
    current_height,     \* self._current_height
    reconnect_task,     \* self._reconnect_task: "None" | "task"
    sup,                \* position of the _monitor_connection task
    supSlept,           \* time units the task has spent in its current sleep
    supCur,             \* the session the task awaits on is self._client
    orphans,            \* _monitor_connection tasks alive besides the one sup follows
    pc,                 \* position of the caller's coroutine
    op,                 \* the public operation the caller is in
    callCur,            \* the session the caller awaits on is self._client
    result,             \* outcome of the operation, once it has returned
    log,                \* transport calls made by the operation so far
    pre_moving,         \* is_moving when the operation was called
    arg,                \* move_to_height: height_cm in hundredths of a cm (72.35 cm is 7235)
    inflight,           \* the frame of the caller's pending write_gatt_char, <<>> if none
    rearm,              \* self._client was opened by a reconnect with a subscriber registered
    reachable,          \* the device answers a connection attempt
    height_offset,      \* self._height_offset, in tenths of a cm
    notified,           \* <<frame>> when the step just taken was _handle_notification(frame)
    delivered,          \* the callbacks that step invoked, in order, with the height each saw
    raisedBy,           \* the callbacks that raised in that step
    cin,                \* codec: the function applied and its argument
    cout                \* codec: what it returned

deskVars == <<is_connected_flag, client, armed, leaked, is_moving, shutdown,
              callbacks, raw_height, current_height, reconnect_task>>
supVars == <<sup, supSlept, supCur>>
callVars == <<pc, op, callCur, result, log, pre_moving, arg, inflight>>
vars == <<is_connected_flag, client, armed, leaked, is_moving, shutdown,
          callbacks, raw_height, current_height, reconnect_task,
          sup, supSlept, supCur, pc, op, callCur, result, log, pre_moving,
          arg, inflight, rearm, reachable, height_offset, notified, delivered, raisedBy,
          cin, cout, orphans>>
codecVars == <<cin, cout>>

\* ---- observers ----

is_connected_of(flag, cl) == flag /\ cl # "None" /\ cl = "open"

is_connected == is_connected_of(is_connected_flag, client)

linkState == IF is_connected THEN "Connected" ELSE "Disconnected"

\* desk.moving_direction: ErgomateDesk assigns no such attribute and defines no
\* such property, so reading it raises AttributeError.
moving_direction == "AttributeError"

\* The cover's is_opening / is_closing: `and` reads moving_direction only when
\* is_moving is true; the outcome is "True", "False" or the error raised.
DirectionIs(d) ==
    IF ~is_moving THEN "False"
    ELSE IF moving_direction = "AttributeError" THEN "AttributeError"
    ELSE IF moving_direction = d THEN "True" ELSE "False"

is_opening == DirectionIs("1")

is_closing == DirectionIs("-1")

TaskDone(s) == s \in {"cancelled", "done", "crashed"}

SupAlive == sup \in {"start", "connecting", "subscribing", "sleep", "backoff", "cancelling"}

Inc(n) == IF n < MaxLeaked THEN n + 1 ELSE MaxLeaked

Commands == {"move_up", "move_down", "stop", "move_to_height"}

\* The target of move_to_height in Spec: 72.00 cm.
SpecTarget == 7200

FrameOf(o) ==
    CASE o = "move_up" -> "write:UP"
      [] o = "move_down" -> "write:DOWN"
      [] o = "stop" -> "write:STOP"
      [] OTHER -> "write:HEIGHT"

Init ==
    /\ is_connected_flag = FALSE
    /\ client = "None"
    /\ armed = FALSE
    /\ leaked = 0
    /\ is_moving = FALSE
    /\ shutdown = FALSE
    /\ callbacks = <<>>
    /\ raw_height = <<>>
    /\ current_height = <<>>
    /\ reconnect_task = "None"
    /\ sup = "none"
    /\ supSlept = 0
    /\ supCur = FALSE
    /\ pc = "idle"
    /\ op = "none"
    /\ callCur = FALSE
    /\ result = "none"
    /\ log = <<>>
    /\ pre_moving = FALSE
    /\ arg = 0
    /\ inflight = <<>>
    /\ rearm = FALSE
    /\ reachable \in BOOLEAN
    /\ height_offset = DefaultOffset
    /\ orphans = 0
    /\ notified = <<>>
    /\ delivered = <<>>
    /\ raisedBy = {}
    /\ cin = <<>>
    /\ cout = <<>>

\* A step that is not _handle_notification invokes no callback; the offset is
\* never assigned after __init__.
\* asyncio.create_task at line 164 while the task self._reconnect_task used
\* to name is still running: that task stays alive, and sup follows the new one.
OrphansAfter ==
    IF reconnect_task = "None" /\ reconnect_task' = "task" /\ SupAlive
    THEN (IF orphans < MaxOrphans THEN orphans + 1 ELSE MaxOrphans)
    ELSE orphans

Quiet ==
    /\ notified' = <<>>
    /\ delivered' = <<>>
    /\ raisedBy' = {}
    /\ orphans' = OrphansAfter
    /\ UNCHANGED <<height_offset, cin, cout>>

\* ---- the transport's disconnected callback ----

on_disconnected_ForgetsHeight ==
    /\ is_connected_flag' = FALSE
    /\ is_moving' = FALSE
    /\ raw_height' = <<>>
    /\ current_height' = <<>>

\* _on_disconnected: the flag and the motion state are cleared, the height is kept.
on_disconnected ==
    /\ is_connected_flag' = FALSE
    /\ is_moving' = FALSE
    /\ UNCHANGED <<raw_height, current_height>>

\* The session self._client refers to loses its link.
LinkLossCurrent ==
    /\ client = "open"
    /\ client' = "down"
    /\ armed' = FALSE
    /\ on_disconnected
    /\ UNCHANGED <<leaked, shutdown, callbacks, reconnect_task, reachable, rearm>>
    /\ UNCHANGED supVars
    /\ UNCHANGED callVars
    /\ Quiet

\* A session that is open without being self._client loses its link; its
\* callback is the same bound method.
LinkLossStale ==
    /\ leaked > 0
    /\ leaked' = leaked - 1
    /\ on_disconnected
    /\ UNCHANGED <<client, armed, shutdown, callbacks, reconnect_task, reachable, rearm>>
    /\ UNCHANGED supVars
    /\ UNCHANGED callVars
    /\ Quiet

\* The device comes into or goes out of range.
EnvReachable ==
    /\ reachable' = ~reachable
    /\ UNCHANGED rearm
    /\ UNCHANGED deskVars
    /\ UNCHANGED supVars
    /\ UNCHANGED callVars
    /\ Quiet

\* ---- _establish_connection, up to its await ----

\* self._client = BleakClient(...): the object replaced stays open if it was.
LeakedAfterNew == IF client = "open" THEN Inc(leaked) ELSE leaked

\* ---- connect(): lines 163-164, the task is created when there is none ----

SpawnNeeded == reconnect_task = "None" \/ TaskDone(sup)

\* ---- the caller: connect() ----

CallConnect ==
    /\ pc = "idle"
    /\ op' = "connect"
    /\ pre_moving' = is_moving
    /\ arg' = 0
    /\ UNCHANGED inflight
    /\ shutdown' = FALSE
    /\ IF is_connected
       THEN /\ pc' = "done"
            /\ result' = "ok"
            /\ log' = <<>>
            /\ reconnect_task' = "task"
            /\ IF SpawnNeeded
               THEN sup' = "start" /\ supSlept' = 0 /\ supCur' = FALSE
               ELSE UNCHANGED supVars
            /\ UNCHANGED <<client, armed, leaked, callCur, rearm>>
       ELSE /\ pc' = "connecting"
            /\ result' = "none"
            /\ log' = <<"open">>
            /\ client' = "pending"
            /\ armed' = FALSE
            /\ rearm' = FALSE
            /\ leaked' = LeakedAfterNew
            /\ callCur' = TRUE
            /\ supCur' = FALSE
            /\ UNCHANGED <<reconnect_task, sup, supSlept>>
    /\ UNCHANGED <<is_connected_flag, is_moving, callbacks, raw_height,
                   current_height, reachable>>
    /\ Quiet

\* ---- the frames: _create_command, _create_height_command ----

\* a ^ b of Python for non-negative integers.
RECURSIVE Xor(_, _)
Xor(a, b) ==
    IF a = 0 /\ b = 0 THEN 0
    ELSE (((a % 2) + (b % 2)) % 2) + 2 * Xor(a \div 2, b \div 2)

Min(a, b) == IF a <= b THEN a ELSE b

Max(a, b) == IF a >= b THEN a ELSE b

\* checksum = TERMINATOR ^ cmd_byte
CommandChecksum_FromHeader(cmd_byte) == Xor(HEADER, cmd_byte)
CommandChecksum(cmd_byte) == Xor(TERMINATOR, cmd_byte)

create_command(cmd_byte) ==
    <<HEADER, RESERVED, cmd_byte, CommandChecksum(cmd_byte), TERMINATOR>>

\* height_mm = max(650, min(1300, height_mm))
ClampHeight_Missing(height_mm) == height_mm
ClampHeight(height_mm) == Max(650, Min(1300, height_mm))

\* checksum = param1 ^ high_byte ^ low_byte ^ zero1 ^ zero2
HeightChecksum_WithCommand(cmd, param1, high_byte, low_byte, zero1, zero2) ==
    Xor(Xor(Xor(Xor(Xor(cmd, param1), high_byte), low_byte), zero1), zero2)
HeightChecksum(cmd, param1, high_byte, low_byte, zero1, zero2) ==
    Xor(Xor(Xor(Xor(param1, high_byte), low_byte), zero1), zero2)

\* x >> 8 is the floor of x / 256, x & 0xFF is x mod 256.
create_height_command(height_mm) ==
    LET mm == ClampHeight(height_mm)
        header == 166
        cmd == 168
        param1 == 1
        high_byte == (mm \div 256) % 256
        low_byte == mm % 256
        zero1 == 0
        zero2 == 0
        terminator == 255
        checksum == HeightChecksum(cmd, param1, high_byte, low_byte, zero1, zero2)
    IN <<header, cmd, param1, high_byte, low_byte, zero1, zero2, checksum, terminator>>

\* height_mm = int(height_cm * 10): the product is truncated towards zero.
to_mm_NoConversion(height_cm) == height_cm \div 100
to_mm(height_cm) ==
    IF height_cm >= 0 THEN height_cm \div 10 ELSE 0 - ((0 - height_cm) \div 10)

\* ---- the caller: move_up / move_down / stop / move_to_height ----

TimedMoves == {"move_up_for", "move_down_for"}

TimedStops == {"move_up_for/stop", "move_down_for/stop"}

\* The command a step of the operation o belongs to: move_up_for is move_up,
\* then asyncio.sleep, then stop.
Cmd(o) ==
    CASE o = "move_up_for" -> "move_up"
      [] o = "move_down_for" -> "move_down"
      [] o \in TimedStops -> "stop"
      [] OTHER -> o

\* The bytes handed to write_gatt_char by the command c.
WireFrame(c, height_cm) ==
    CASE c = "move_up" -> create_command(CMD_UP)
      [] c = "move_down" -> create_command(CMD_DOWN)
      [] c = "stop" -> create_command(CMD_STOP)
      [] OTHER -> create_height_command(to_mm(height_cm))


\* move_up and move_down set _is_moving before _send_command (lines 263, 273);
\* move_to_height sets it after the connectivity check (line 334).
MovingAtCall_StopClearsFirst(o) ==
    IF o \in {"move_up", "move_down"} THEN TRUE
    ELSE IF o = "stop" THEN FALSE ELSE is_moving
MovingAtCall(o) == IF o \in {"move_up", "move_down"} THEN TRUE ELSE is_moving

MovingAtWrite_SetAfterWrite(o, m) == m
MovingAtWrite(o, m) == IF o = "move_to_height" THEN TRUE ELSE m

\* A command from its first line to its first await: the write when the link
\* is up, the handshake of the reconnect otherwise.
CommandStart(c, height_cm) ==
    /\ callCur' = TRUE
    /\ IF is_connected
       THEN /\ pc' = "writing"
            /\ log' = Append(log, FrameOf(c))
            /\ inflight' = WireFrame(c, height_cm)
            /\ is_moving' = MovingAtWrite(c, MovingAtCall(c))
            /\ UNCHANGED <<client, armed, leaked, shutdown, supCur, rearm>>
       ELSE /\ pc' = "connecting"
            /\ log' = Append(log, "open")
            /\ inflight' = <<>>
            /\ is_moving' = MovingAtCall(c)
            /\ shutdown' = FALSE
            /\ client' = "pending"
            /\ armed' = FALSE
            /\ rearm' = FALSE
            /\ leaked' = LeakedAfterNew
            /\ supCur' = FALSE
    /\ UNCHANGED <<is_connected_flag, callbacks, raw_height, current_height,
                   reconnect_task, sup, supSlept, reachable>>

CallCommand(o, height_cm) ==
    /\ pc = "idle"
    /\ op' = o
    /\ pre_moving' = is_moving
    /\ arg' = IF o = "move_to_height" THEN height_cm ELSE 0
    /\ result' = "none"
    /\ CommandStart(o, height_cm)
    /\ Quiet

\* move_up_for / move_down_for: the move_up() or move_down() of the first line.
CallTimedMove(o) ==
    /\ pc = "idle"
    /\ op' = o
    /\ pre_moving' = is_moving
    /\ arg' = 0
    /\ result' = "none"
    /\ CommandStart(Cmd(o), 0)
    /\ Quiet

\* await self.stop() follows the sleep without a condition.
StopAtExpiry_OnlyIfConnected == is_connected
StopAtExpiry == TRUE

\* asyncio.sleep(duration) of move_up_for / move_down_for is over: stop().
TimerExpires ==
    /\ pc = "t_sleep"
    /\ op' = IF op = "move_up_for" THEN "move_up_for/stop" ELSE "move_down_for/stop"
    /\ IF StopAtExpiry
       THEN CommandStart("stop", 0) /\ UNCHANGED result
       ELSE /\ pc' = "done"
            /\ result' = "ok"
            /\ UNCHANGED <<callCur, log, inflight, reachable, rearm>>
            /\ UNCHANGED deskVars
            /\ UNCHANGED supVars
    /\ UNCHANGED <<pre_moving, arg>>
    /\ Quiet

CloudOps == {"beep", "lock", "unlock", "factory_reset"}

\* The only statement of each of the four: raise NotImplementedError(...).
CloudOutcome_Silent(o) == "ok"
CloudOutcome(o) == "NotImplementedError"

\* beep / lock / unlock / factory_reset: raise NotImplementedError, nothing else.
CallCloud(o) ==
    /\ pc = "idle"
    /\ op' = o
    /\ pre_moving' = is_moving
    /\ arg' = 0
    /\ pc' = "done"
    /\ result' = CloudOutcome(o)
    /\ UNCHANGED <<callCur, log, inflight, reachable, rearm>>
    /\ UNCHANGED deskVars
    /\ UNCHANGED supVars
    /\ Quiet

\* await self._client.connect() returns or raises, in connect() or in the
\* reconnect of a command.
CallerConnectDone ==
    /\ pc = "connecting"
    /\ LET okH == reachable
           client1 == IF callCur THEN (IF okH THEN "open" ELSE "down") ELSE client
           flag1 == IF okH THEN TRUE ELSE is_connected_flag
           conn1 == is_connected_of(flag1, client1)
       IN
       /\ client' = client1
       /\ is_connected_flag' = flag1
       /\ leaked' = IF okH /\ ~callCur THEN Inc(leaked) ELSE leaked
       /\ rearm' = IF okH /\ callCur THEN (op # "connect" /\ callbacks # <<>>) ELSE rearm
       /\ IF okH /\ SpawnNeeded
          THEN reconnect_task' = "task" /\ sup' = "start" /\ supSlept' = 0
          ELSE UNCHANGED <<reconnect_task, sup, supSlept>>
       /\ IF ~okH
          THEN /\ pc' = "done"
               /\ result' = IF op = "connect" THEN "BleakError" ELSE "ConnectionError"
               /\ UNCHANGED <<log, callCur, is_moving, supCur, inflight>>
          ELSE IF op = "connect"
          THEN /\ pc' = "done"
               /\ result' = "ok"
               /\ UNCHANGED <<log, callCur, is_moving, supCur, inflight>>
          ELSE IF callbacks # <<>>
          THEN IF conn1
               THEN /\ pc' = "subscribing"
                    /\ log' = Append(log, "notify")
                    /\ callCur' = TRUE
                    /\ UNCHANGED <<result, is_moving, supCur, inflight>>
               ELSE /\ pc' = "done"
                    /\ result' = "ConnectionError"
                    /\ UNCHANGED <<log, callCur, is_moving, supCur, inflight>>
          ELSE /\ pc' = "writing"
               /\ log' = Append(log, FrameOf(Cmd(op)))
               /\ inflight' = WireFrame(Cmd(op), arg)
               /\ callCur' = TRUE
               /\ is_moving' = MovingAtWrite(Cmd(op), is_moving)
               /\ UNCHANGED <<result, supCur>>
    /\ UNCHANGED <<armed, shutdown, callbacks, raw_height, current_height,
                   op, pre_moving, arg, reachable>>
    /\ Quiet

\* await self._client.start_notify(...) returns or raises.
CallerSubscribeDone ==
    /\ pc = "subscribing"
    /\ \E okN \in BOOLEAN :
        /\ okN => (~callCur \/ client = "open")
        /\ armed' = IF okN /\ callCur THEN TRUE ELSE armed
        /\ IF ~okN
           THEN /\ pc' = "done"
                /\ result' = IF op = "subscribe_notifications" THEN "BleakError"
                                                               ELSE "ConnectionError"
                /\ UNCHANGED <<log, callCur, is_moving, inflight>>
           ELSE IF op = "subscribe_notifications"
           THEN /\ pc' = "done"
                /\ result' = "ok"
                /\ UNCHANGED <<log, callCur, is_moving, inflight>>
           ELSE /\ pc' = "writing"
                /\ log' = Append(log, FrameOf(Cmd(op)))
                /\ inflight' = WireFrame(Cmd(op), arg)
                /\ callCur' = TRUE
                /\ is_moving' = MovingAtWrite(Cmd(op), is_moving)
                /\ UNCHANGED result
    /\ UNCHANGED <<is_connected_flag, client, leaked, shutdown, callbacks,
                   raw_height, current_height, reconnect_task, op, pre_moving, arg,
                   reachable, rearm>>
    /\ UNCHANGED supVars
    /\ Quiet

\* await self._client.write_gatt_char(...) returns or raises.
CallerWriteDone ==
    /\ pc = "writing"
    /\ \E okW \in BOOLEAN :
        /\ okW => (~callCur \/ client = "open")
        /\ pc' = IF okW /\ op \in TimedMoves THEN "t_sleep" ELSE "done"
        /\ result' = IF ~okW THEN "BleakError"
                     ELSE IF op \in TimedMoves THEN "none" ELSE "ok"
        /\ is_moving' = IF okW /\ Cmd(op) = "stop" THEN FALSE ELSE is_moving
        /\ inflight' = <<>>
    /\ UNCHANGED <<is_connected_flag, client, armed, leaked, shutdown, callbacks,
                   raw_height, current_height, reconnect_task, op, callCur, log,
                   pre_moving, arg, reachable, rearm>>
    /\ UNCHANGED supVars
    /\ Quiet

\* The caller has seen the outcome and is free to issue the next operation.
Return ==
    /\ pc = "done"
    /\ pc' = "idle"
    /\ op' = "none"
    /\ result' = "none"
    /\ log' = <<>>
    /\ callCur' = FALSE
    /\ pre_moving' = FALSE
    /\ arg' = 0
    /\ UNCHANGED inflight
    /\ UNCHANGED deskVars
    /\ UNCHANGED supVars
    /\ UNCHANGED <<reachable, rearm>>
    /\ Quiet

\* ---- the caller: register_callback / unregister_callback ----

InSeq(x, q) == \E i \in 1..Len(q) : q[i] = x

RemoveFirst_DropsLast(q, x) == SubSeq(q, 1, Len(q) - 1)

\* list.remove(x): the first occurrence goes, the rest keep their order.
RECURSIVE RemoveFirst(_, _)
RemoveFirst(q, x) ==
    IF q = <<>> THEN <<>>
    ELSE IF Head(q) = x THEN Tail(q)
    ELSE <<Head(q)>> \o RemoveFirst(Tail(q), x)

\* The list each method leaves behind, as a function of the list it finds.
Registered(cbs, cb) == IF InSeq(cb, cbs) THEN cbs ELSE Append(cbs, cb)

Unregistered(cbs, cb) == IF InSeq(cb, cbs) THEN RemoveFirst(cbs, cb) ELSE cbs

register_callback(cb) ==
    /\ pc = "idle"
    /\ callbacks' = Registered(callbacks, cb)
    /\ UNCHANGED <<is_connected_flag, client, armed, leaked, is_moving, shutdown,
                   raw_height, current_height, reconnect_task, reachable, rearm>>
    /\ UNCHANGED supVars
    /\ UNCHANGED callVars
    /\ Quiet

unregister_callback(cb) ==
    /\ pc = "idle"
    /\ callbacks' = Unregistered(callbacks, cb)
    /\ UNCHANGED <<is_connected_flag, client, armed, leaked, is_moving, shutdown,
                   raw_height, current_height, reconnect_task, reachable, rearm>>
    /\ UNCHANGED supVars
    /\ UNCHANGED callVars
    /\ Quiet

\* ---- the caller: subscribe_notifications() ----

CallSubscribe ==
    /\ pc = "idle"
    /\ op' = "subscribe_notifications"
    /\ pre_moving' = is_moving
    /\ arg' = 0
    /\ UNCHANGED inflight
    /\ IF is_connected
       THEN /\ pc' = "subscribing"
            /\ result' = "none"
            /\ log' = <<"notify">>
            /\ callCur' = TRUE
       ELSE /\ pc' = "done"
            /\ result' = "ConnectionError"
            /\ log' = <<>>
            /\ UNCHANGED callCur
    /\ UNCHANGED deskVars
    /\ UNCHANGED supVars
    /\ UNCHANGED <<reachable, rearm>>
    /\ Quiet

\* ---- the caller: disconnect() ----

\* Variant of StopNeeded: the teardown never stops the desk.
StopNeeded_Never == FALSE

\* Line 200: the desk is stopped first when it moves and the link is up.
StopNeeded == is_moving /\ is_connected

\* Variant of StopErrorCaught: stop() is called outside any try.
StopErrorCaught_Propagates == FALSE

\* Lines 201-204: an Exception of stop() is logged and the teardown goes on.
StopErrorCaught == TRUE

\* Lines 199-214 up to the next await, entered with the task (if any) gone.
Teardown ==
    IF StopNeeded
    THEN /\ pc' = "d_stop"
         /\ log' = Append(log, "write:STOP")
         /\ inflight' = WireFrame("stop", 0)
         /\ callCur' = TRUE
         /\ UNCHANGED <<result, is_connected_flag, is_moving>>
    ELSE IF client # "None"
    THEN /\ pc' = "d_close"
         /\ log' = Append(log, "close")
         /\ callCur' = TRUE
         /\ UNCHANGED <<result, is_connected_flag, is_moving, inflight>>
    ELSE /\ pc' = "done"
         /\ result' = "ok"
         /\ is_connected_flag' = FALSE
         /\ is_moving' = FALSE
         /\ UNCHANGED <<log, callCur, inflight>>

\* Variant of CancelFirst: the teardown leaves the task alone.
CancelFirst_Skipped == FALSE

\* Lines 190-194: the task is cancelled, and awaited, before anything else.
CancelFirst == TRUE

\* disconnect() from its first line to its first await, called by operation o.
DisconnectStart(o) ==
    /\ pc = "idle"
    /\ op' = o
    /\ pre_moving' = is_moving
    /\ arg' = 0
    /\ shutdown' = TRUE
    /\ IF reconnect_task # "None" /\ CancelFirst
       THEN /\ pc' = "d_await"
            /\ sup' = IF TaskDone(sup) THEN sup ELSE "cancelling"
            /\ result' = "none"
            /\ log' = <<>>
            /\ UNCHANGED <<callCur, is_connected_flag, is_moving, reconnect_task, inflight>>
       ELSE /\ Teardown
            /\ UNCHANGED <<sup, reconnect_task>>
    /\ UNCHANGED <<client, armed, leaked, raw_height, current_height,
                   supSlept, supCur, reachable, rearm>>
    /\ Quiet

CallDisconnect == DisconnectStart("disconnect") /\ UNCHANGED callbacks

\* ---- the integration: async_unload_entry ----

\* The entry is loaded: async_setup_entry's connect() has returned and no
\* disconnect() has run since.
EntryLoaded == reconnect_task = "task"

\* async_unload_entry: when the platforms unload (their entities unregister
\* their callbacks on removal), disconnect() is called if desk.is_connected
\* and is not called otherwise.
CallUnload ==
    /\ pc = "idle"
    /\ EntryLoaded
    /\ \E unload_ok \in BOOLEAN :
        IF unload_ok /\ is_connected
        THEN /\ DisconnectStart("async_unload_entry")
             /\ callbacks' = <<>>
        ELSE /\ op' = "async_unload_entry"
             /\ pc' = "done"
             /\ result' = IF unload_ok THEN "ok" ELSE "unload_failed"
             /\ pre_moving' = is_moving
             /\ arg' = 0
             /\ log' = <<>>
             /\ callbacks' = IF unload_ok THEN <<>> ELSE callbacks
             /\ UNCHANGED <<is_connected_flag, client, armed, leaked, is_moving, shutdown,
                            raw_height, current_height, reconnect_task, callCur,
                            inflight, reachable, rearm>>
             /\ UNCHANGED supVars
             /\ Quiet

\* The cancelled task has ended: await self._reconnect_task raises
\* CancelledError, which is passed over, and the teardown goes on.  Line 196
\* forgets whatever self._reconnect_task names by then: a task that a
\* connect() created meanwhile runs on.
DisconnectResume ==
    /\ pc = "d_await"
    /\ sup # "cancelling"
    /\ reconnect_task' = "None"
    /\ sup' = IF TaskDone(sup) THEN "none" ELSE sup
    /\ Teardown
    /\ UNCHANGED <<client, armed, leaked, shutdown, callbacks, raw_height,
                   current_height, supSlept, supCur, op, pre_moving, arg, reachable, rearm>>
    /\ Quiet

\* The write of stop() returns or raises inside the try of lines 201-204;
\* then line 207-209 closes the session.
DisconnectStopDone ==
    /\ pc = "d_stop"
    /\ \E okW \in BOOLEAN :
        /\ okW => (~callCur \/ client = "open")
        /\ is_moving' = IF okW THEN FALSE ELSE is_moving
        /\ inflight' = <<>>
        /\ IF ~okW /\ ~StopErrorCaught
           THEN /\ pc' = "done"
                /\ result' = "BleakError"
                /\ log' = Append(log, "raised")
                /\ UNCHANGED <<callCur, is_connected_flag>>
           ELSE IF client # "None"
           THEN /\ pc' = "d_close"
                /\ log' = IF okW THEN Append(log, "close")
                                 ELSE Append(Append(log, "raised"), "close")
                /\ callCur' = TRUE
                /\ UNCHANGED <<result, is_connected_flag>>
           ELSE /\ pc' = "done"
                /\ result' = "ok"
                /\ is_connected_flag' = FALSE
                /\ log' = IF okW THEN log ELSE Append(log, "raised")
                /\ UNCHANGED callCur
    /\ UNCHANGED <<client, armed, leaked, shutdown, callbacks, raw_height,
                   current_height, reconnect_task, op, pre_moving, arg, reachable, rearm>>
    /\ UNCHANGED supVars
    /\ Quiet

\* await self._client.disconnect() returns, or raises a BleakError that is
\* logged; lines 212-213 follow in both cases.
DisconnectCloseDone ==
    /\ pc = "d_close"
    /\ \E okC \in BOOLEAN :
        /\ client' = IF okC /\ callCur THEN "closed" ELSE client
        /\ armed' = IF okC /\ callCur THEN FALSE ELSE armed
    /\ pc' = "done"
    /\ result' = "ok"
    /\ is_connected_flag' = FALSE
    /\ is_moving' = FALSE
    /\ UNCHANGED inflight
    /\ UNCHANGED <<leaked, shutdown, callbacks, raw_height, current_height,
                   reconnect_task, op, callCur, log, pre_moving, arg, reachable, rearm>>
    /\ UNCHANGED supVars
    /\ Quiet

\* ---- the reconnect task: _monitor_connection ----

\* Variant of MonitorOnException: no except clause, the error ends the task.
MonitorOnException_Dies(where) == "crashed"

\* Variant of MonitorOnException: the try covers _establish_connection only.
MonitorOnException_SubscribeEscapes(where) ==
    IF where = "subscribe" THEN "crashed" ELSE "backoff"

\* The except clause of lines 175-178: every Exception ends in the backoff sleep.
MonitorOnException(where) == "backoff"

\* The loop from its top (line 168) to its next await.
MonitorLoop ==
    IF shutdown
    THEN /\ sup' = "done"
         /\ UNCHANGED <<client, armed, leaked, supSlept, supCur, callCur, rearm>>
    ELSE IF ~is_connected
    THEN /\ sup' = "connecting"
         /\ client' = "pending"
         /\ armed' = FALSE
         /\ leaked' = LeakedAfterNew
         /\ supCur' = TRUE
         /\ callCur' = FALSE
         /\ rearm' = FALSE
         /\ UNCHANGED supSlept
    ELSE /\ sup' = "sleep"
         /\ supSlept' = 0
         /\ UNCHANGED <<client, armed, leaked, supCur, callCur, rearm>>

\* The task created by connect() runs for the first time.
SupStart ==
    /\ sup = "start"
    /\ MonitorLoop
    /\ UNCHANGED <<is_connected_flag, is_moving, shutdown, callbacks, raw_height,
                   current_height, reconnect_task, pc, op, result, log, pre_moving, arg, inflight,
                   reachable>>
    /\ Quiet

\* Variant of SleepOver: the loop goes round without sleeping.
SleepOver_Immediate == sup \in {"backoff", "sleep"}

\* asyncio.sleep(5) is over (line 177 followed by continue, or line 180).
SleepOver == (sup = "backoff" /\ supSlept >= BACKOFF) \/ (sup = "sleep" /\ supSlept >= POLL)

SupWake ==
    /\ SleepOver
    /\ MonitorLoop
    /\ UNCHANGED <<is_connected_flag, is_moving, shutdown, callbacks, raw_height,
                   current_height, reconnect_task, pc, op, result, log, pre_moving, arg, inflight,
                   reachable>>
    /\ Quiet

\* await self._client.connect() of line 172 returns or raises.
SupConnectDone ==
    /\ sup = "connecting"
    /\ LET okH == reachable
           client1 == IF supCur THEN (IF okH THEN "open" ELSE "down") ELSE client
           flag1 == IF okH THEN TRUE ELSE is_connected_flag
           conn1 == is_connected_of(flag1, client1)
       IN
       /\ client' = client1
       /\ is_connected_flag' = flag1
       /\ leaked' = IF okH /\ ~supCur THEN Inc(leaked) ELSE leaked
       /\ rearm' = IF okH /\ supCur THEN callbacks # <<>> ELSE rearm
       /\ IF ~okH
          THEN /\ sup' = MonitorOnException("connect")
               /\ supSlept' = 0
               /\ UNCHANGED <<supCur, callCur>>
          ELSE IF callbacks # <<>>
          THEN IF conn1
               THEN /\ sup' = "subscribing"
                    /\ supCur' = TRUE
                    /\ UNCHANGED <<supSlept, callCur>>
               ELSE /\ sup' = MonitorOnException("subscribe")
                    /\ supSlept' = 0
                    /\ UNCHANGED <<supCur, callCur>>
          ELSE /\ sup' = "sleep"
               /\ supSlept' = 0
               /\ UNCHANGED <<supCur, callCur>>
    /\ UNCHANGED <<armed, is_moving, shutdown, callbacks, raw_height, current_height,
                   reconnect_task, pc, op, result, log, pre_moving, arg, inflight, reachable>>
    /\ Quiet

\* await self._client.start_notify(...) of line 174 returns or raises.
SupSubscribeDone ==
    /\ sup = "subscribing"
    /\ \E okN \in BOOLEAN :
        /\ okN => (~supCur \/ client = "open")
        /\ armed' = IF okN /\ supCur THEN TRUE ELSE armed
        /\ sup' = IF okN THEN "sleep" ELSE MonitorOnException("subscribe")
    /\ supSlept' = 0
    /\ UNCHANGED <<is_connected_flag, client, leaked, is_moving, shutdown, callbacks,
                   raw_height, current_height, reconnect_task, supCur, reachable, rearm>>
    /\ UNCHANGED callVars
    /\ Quiet

\* The CancelledError thrown into the task by disconnect() ends it.
SupCancelled ==
    /\ sup = "cancelling"
    /\ sup' = "cancelled"
    /\ UNCHANGED <<supSlept, supCur, reachable, rearm>>
    /\ UNCHANGED deskVars
    /\ UNCHANGED callVars
    /\ Quiet

\* One time unit passes.
Tick ==
    /\ sup \in {"sleep", "backoff"}
    /\ supSlept < (IF sup = "backoff" THEN BACKOFF ELSE POLL)
    /\ supSlept' = supSlept + 1
    /\ UNCHANGED <<sup, supCur, reachable, rearm>>
    /\ UNCHANGED deskVars
    /\ UNCHANGED callVars
    /\ Quiet

\* ---- notifications ----

None == <<>>

IsDigit(b) == b >= 48 /\ b <= 57

IsSpace(b) == b \in {9, 10, 11, 12, 13, 32}

\* The characters of q[lo..hi] as int() accepts them after the sign: digits,
\* with single underscores between digits.
DigitsOk(q, lo, hi) ==
    /\ lo <= hi
    /\ IsDigit(q[lo])
    /\ IsDigit(q[hi])
    /\ \A i \in lo..hi : IsDigit(q[i]) \/ q[i] = 95
    /\ \A i \in lo..(hi - 1) : ~(q[i] = 95 /\ q[i + 1] = 95)

RECURSIVE DigitsVal(_, _, _, _)
DigitsVal(q, lo, hi, acc) ==
    IF lo > hi THEN acc
    ELSE IF q[lo] = 95 THEN DigitsVal(q, lo + 1, hi, acc)
    ELSE DigitsVal(q, lo + 1, hi, acc * 10 + (q[lo] - 48))

\* int(text) of Python for an ASCII text: surrounding whitespace is stripped,
\* one sign is allowed; <<v>> for the value v, None for a ValueError.
py_int(q) ==
    LET n == Len(q)
        nonsp == {i \in 1..n : ~IsSpace(q[i])}
    IN IF nonsp = {} THEN None
       ELSE LET lo == CHOOSE i \in nonsp : \A j \in nonsp : i <= j
                hi == CHOOSE i \in nonsp : \A j \in nonsp : j <= i
                signed == q[lo] \in {43, 45}
                dlo == IF signed THEN lo + 1 ELSE lo
            IN IF DigitsOk(q, dlo, hi)
               THEN IF q[lo] = 45 THEN <<0 - DigitsVal(q, dlo, hi, 0)>>
                                  ELSE <<DigitsVal(q, dlo, hi, 0)>>
               ELSE None

parse_height_ZeroOnError(data) ==
    IF Len(data) = 4 /\ (\A i \in 1..4 : data[i] < 128) /\ py_int(data) # None
    THEN py_int(data)
    ELSE <<0>>

\* _parse_height: <<h>> with h the height in tenths of a cm (height_mm / 10.0
\* keeps one decimal), None when the frame is not 4 bytes, is not ASCII
\* (UnicodeDecodeError) or is not an integer literal (ValueError).
parse_height(data) ==
    IF Len(data) = 4
    THEN IF \E i \in 1..4 : data[i] >= 128 THEN None ELSE py_int(data)
    ELSE None

\* except Exception around callback(sender, data): the error is logged.
CallbackErrorCaught_Escapes == FALSE
CallbackErrorCaught == TRUE

\* for callback in self._callbacks: the callbacks invoked, in order, each with
\* the heights self.current_height and self.raw_height return while it runs.
RECURSIVE Forward(_, _, _)
Forward(cbs, raisers, saw) ==
    IF cbs = <<>> THEN <<>>
    ELSE <<[cb |-> Head(cbs), saw |-> saw.current, raw |-> saw.raw]>> \o
         (IF Head(cbs) \in raisers /\ ~CallbackErrorCaught
          THEN <<>>
          ELSE Forward(Tail(cbs), raisers, saw))

\* The forwarding loop comes after the assignments to the heights: a callback
\* reads the heights the frame has just set, not the ones it found.
HeightsAtForward_BeforeUpdate(old, new) == old
HeightsAtForward(old, new) == new

\* The transport delivers a frame of the armed session to _handle_notification;
\* raisers are the callbacks that raise when invoked.
Notification(data, raisers) ==
    /\ client = "open"
    /\ armed
    /\ LET h == parse_height(data)
           old == [current |-> current_height, raw |-> raw_height]
           new == IF h # None THEN [current |-> h, raw |-> h] ELSE old
       IN /\ IF h # None
             THEN raw_height' = h /\ current_height' = h
             ELSE UNCHANGED <<raw_height, current_height>>
          /\ delivered' = Forward(callbacks, raisers, HeightsAtForward(old, new))
    /\ notified' = <<data>>
    /\ raisedBy' = raisers
    /\ UNCHANGED <<is_connected_flag, client, armed, leaked, is_moving, shutdown,
                   callbacks, reconnect_task, reachable, rearm, height_offset, orphans>>
    /\ UNCHANGED supVars
    /\ UNCHANGED callVars
    /\ UNCHANGED codecVars

\* ---- the system ----

CallerStep ==
    \/ CallConnect
    \/ \E o \in Commands : CallCommand(o, SpecTarget)
    \/ CallSubscribe
    \/ CallDisconnect
    \/ \E cb \in Subscribers : register_callback(cb)
    \/ \E cb \in Subscribers : unregister_callback(cb)
    \/ CallerConnectDone
    \/ CallerSubscribeDone
    \/ CallerWriteDone
    \/ DisconnectResume
    \/ DisconnectStopDone
    \/ DisconnectCloseDone
    \/ Return

SupStep ==
    \/ SupStart
    \/ SupWake
    \/ SupConnectDone
    \/ SupSubscribeDone
    \/ SupCancelled

EnvStep ==
    \/ LinkLossCurrent
    \/ LinkLossStale
    \/ EnvReachable
    \/ \E data \in Frames : Notification(data, {})

Next == CallerStep \/ SupStep \/ Tick \/ EnvStep

Spec == Init /\ [][Next]_vars

\* The event loop runs every task that is ready, and time passes.
LiveSpec == Spec /\ WF_vars(SupStep) /\ WF_vars(Tick)

\* ---- every public operation, with several targets; no notifications ----

\* height_cm of move_to_height, in hundredths: 200.00, 50.00, 72.00, 72.35
\* and -1.00 cm.
OpsTargets == {20000, 5000, 7200, 7235, 0 - 100}

OpsCallerStep ==
    \/ CallConnect
    \/ \E o \in Commands \ {"move_to_height"} : CallCommand(o, 0)
    \/ \E t \in OpsTargets : CallCommand("move_to_height", t)
    \/ \E o \in TimedMoves : CallTimedMove(o)
    \/ TimerExpires
    \/ \E o \in CloudOps : CallCloud(o)
    \/ CallSubscribe
    \/ CallDisconnect
    \/ CallUnload
    \/ \E cb \in Subscribers : register_callback(cb)
    \/ \E cb \in Subscribers : unregister_callback(cb)
    \/ CallerConnectDone
    \/ CallerSubscribeDone
    \/ CallerWriteDone
    \/ DisconnectResume
    \/ DisconnectStopDone
    \/ DisconnectCloseDone
    \/ Return

OpsEnvStep ==
    \/ LinkLossCurrent
    \/ LinkLossStale
    \/ EnvReachable

NextOps == OpsCallerStep \/ SupStep \/ Tick \/ OpsEnvStep

OpsSpec == Init /\ [][NextOps]_vars

\* ---- a second coroutine calling connect() while the caller is suspended ----

\* The awaits of the caller's operations.
Suspended ==
    pc \in {"connecting", "subscribing", "writing", "t_sleep", "d_await", "d_stop", "d_close"}

\* connect() run by another coroutine of the event loop while the link is
\* Connected: _establish_connection returns at line 145 without awaiting, so
\* lines 160-164 are one step.
ConcurrentConnect ==
    /\ Suspended
    /\ is_connected
    /\ shutdown' = FALSE
    /\ reconnect_task' = "task"
    /\ IF SpawnNeeded
       THEN sup' = "start" /\ supSlept' = 0 /\ supCur' = FALSE
       ELSE UNCHANGED supVars
    /\ UNCHANGED <<is_connected_flag, client, armed, leaked, is_moving, callbacks,
                   raw_height, current_height, reachable, rearm>>
    /\ UNCHANGED callVars
    /\ Quiet

\* A task nothing refers to leaves its loop at line 168 once _shutdown is set.
OrphanEnds ==
    /\ orphans > 0
    /\ shutdown
    /\ orphans' = orphans - 1
    /\ notified' = <<>>
    /\ delivered' = <<>>
    /\ raisedBy' = {}
    /\ UNCHANGED <<height_offset, cin, cout, reachable, rearm>>
    /\ UNCHANGED deskVars
    /\ UNCHANGED supVars
    /\ UNCHANGED callVars

NextOverlap ==
    \/ CallerStep
    \/ SupStep
    \/ Tick
    \/ OpsEnvStep
    \/ ConcurrentConnect
    \/ OrphanEnds

OverlapSpec == Init /\ [][NextOverlap]_vars

\* ---- notification handling on an established, armed session ----

Handlers == 1..MaxHandlers

\* height_offset values a controller can be created with, in tenths of a cm.
Offsets == {0, 15, 0 - 10}

\* b"0720", b"1300", b"0000", b"12AB", b"072", b"".
NotifyFrames == { <<48, 55, 50, 48>>, <<49, 51, 48, 48>>, <<48, 48, 48, 48>>,
                  <<49, 50, 65, 66>>, <<48, 55, 50>>, <<>> }

\* The lists register_callback can build: no callback twice.
CallbackLists ==
    {q \in UNION {[1..n -> Handlers] : n \in 0..MaxHandlers} :
        \A i, j \in 1..Len(q) : q[i] = q[j] => i = j}

\* connect() and subscribe_notifications() have succeeded, the reconnect task
\* sleeps, the entities have registered their callbacks.
InitNotify ==
    /\ is_connected_flag = TRUE
    /\ client = "open"
    /\ armed = TRUE
    /\ leaked = 0
    /\ is_moving = FALSE
    /\ shutdown = FALSE
    /\ callbacks \in CallbackLists
    /\ raw_height = <<>>
    /\ current_height = <<>>
    /\ reconnect_task = "task"
    /\ sup = "sleep"
    /\ supSlept = 0
    /\ supCur = FALSE
    /\ pc = "idle"
    /\ op = "none"
    /\ callCur = FALSE
    /\ result = "none"
    /\ log = <<>>
    /\ pre_moving = FALSE
    /\ arg = 0
    /\ inflight = <<>>
    /\ rearm = FALSE
    /\ reachable = TRUE
    /\ height_offset \in Offsets
    /\ orphans = 0
    /\ notified = <<>>
    /\ delivered = <<>>
    /\ raisedBy = {}
    /\ cin = <<>>
    /\ cout = <<>>

NextNotify ==
    \/ \E data \in NotifyFrames, raisers \in SUBSET Handlers : Notification(data, raisers)
    \/ \E cb \in Handlers : register_callback(cb)
    \/ \E cb \in Handlers : unregister_callback(cb)

NotifySpec == InitNotify /\ [][NextNotify]_vars

\* ---- callbacks that unregister a callback while a frame is delivered ----

\* What each callback does when invoked: 0 for nothing, h for
\* desk.unregister_callback(h).
Unregisterings == [Handlers -> {0} \cup Handlers]

\* for callback in self._callbacks over the list as it is while the loop runs:
\* the list iterator holds an index i into the live list, and the callback it
\* has just fetched may remove an entry before the next fetch.  calls are the
\* invocations made from index i on, list is self._callbacks after the loop.
RECURSIVE ForwardLive(_, _, _, _)
ForwardLive(cbs, i, removes, saw) ==
    IF i > Len(cbs) THEN [calls |-> <<>>, list |-> cbs]
    ELSE LET cb == cbs[i]
             after == IF removes[cb] = 0 THEN cbs ELSE Unregistered(cbs, removes[cb])
             rest == ForwardLive(after, i + 1, removes, saw)
         IN [calls |-> <<[cb |-> cb, saw |-> saw.current, raw |-> saw.raw]>> \o rest.calls,
             list |-> rest.list]

\* _handle_notification when callbacks unregister callbacks.
NotificationUnregistering(data, removes) ==
    /\ client = "open"
    /\ armed
    /\ LET h == parse_height(data)
           old == [current |-> current_height, raw |-> raw_height]
           new == IF h # None THEN [current |-> h, raw |-> h] ELSE old
           loop == ForwardLive(callbacks, 1, removes, HeightsAtForward(old, new))
       IN /\ IF h # None
             THEN raw_height' = h /\ current_height' = h
             ELSE UNCHANGED <<raw_height, current_height>>
          /\ delivered' = loop.calls
          /\ callbacks' = loop.list
    /\ notified' = <<data>>
    /\ raisedBy' = {}
    /\ UNCHANGED <<is_connected_flag, client, armed, leaked, is_moving, shutdown,
                   reconnect_task, reachable, rearm, height_offset, orphans>>
    /\ UNCHANGED supVars
    /\ UNCHANGED callVars
    /\ UNCHANGED codecVars

NextReentrant ==
    \/ \E data \in NotifyFrames, removes \in Unregisterings :
          NotificationUnregistering(data, removes)
    \/ \E cb \in Handlers : register_callback(cb)
    \/ \E cb \in Handlers : unregister_callback(cb)

ReentrantSpec == InitNotify /\ [][NextReentrant]_vars

\* ---- the codec: _create_command, _create_height_command, _parse_height ----

\* Bytes a frame is made of here: '0', '7', '+', '-', ' ', '_', 'A' and the
\* non-ASCII byte 200.
CodecBytes == {48, 55, 43, 45, 32, 95, 65, 200}

CodecFrames == UNION {[1..n -> CodecBytes] : n \in 0..MaxFrameLen}

\* Targets in mm, with one beyond 16 bits.
CodecTargets == ((0 - MaxTarget)..MaxTarget) \cup {65536 + 700}

CodecCommands == {CMD_UP, CMD_DOWN, CMD_STOP}

\* Callback lists as the controller can hold them (register_callback never
\* appends a callback twice) and the callbacks handed to the two list methods.
CodecCallbacks == 1..MaxListed

CodecLists ==
    {q \in UNION {[1..n -> CodecCallbacks] : n \in 0..MaxListed} :
        \A i, j \in 1..Len(q) : i # j => q[i] # q[j]}

\* A fresh controller and one codec call: cin is <<function, argument>>, cout
\* is <<>> until the function has returned and <<value>> afterwards.
InitCodec ==
    /\ is_connected_flag = FALSE
    /\ client = "None"
    /\ armed = FALSE
    /\ leaked = 0
    /\ is_moving = FALSE
    /\ shutdown = FALSE
    /\ callbacks = <<>>
    /\ raw_height = <<>>
    /\ current_height = <<>>
    /\ reconnect_task = "None"
    /\ sup = "none"
    /\ supSlept = 0
    /\ supCur = FALSE
    /\ pc = "idle"
    /\ op = "none"
    /\ callCur = FALSE
    /\ result = "none"
    /\ log = <<>>
    /\ pre_moving = FALSE
    /\ arg = 0
    /\ inflight = <<>>
    /\ rearm = FALSE
    /\ reachable = TRUE
    /\ height_offset = DefaultOffset
    /\ orphans = 0
    /\ notified = <<>>
    /\ delivered = <<>>
    /\ raisedBy = {}
    /\ \/ \E f \in CodecFrames : cin = <<"parse_height", f>>
       \/ \E h \in CodecTargets : cin = <<"create_height_command", h>>
       \/ \E c \in CodecCommands : cin = <<"create_command", c>>
       \/ \E q \in CodecLists, cb \in CodecCallbacks :
             \/ cin = <<"register_callback", q, cb>>
             \/ cin = <<"unregister_callback", q, cb>>
    /\ cout = <<>>

CodecReturns(v) ==
    /\ cout = <<>>
    /\ cout' = <<v>>
    /\ UNCHANGED <<cin, height_offset, notified, delivered, raisedBy, rearm, reachable,
                   orphans>>
    /\ UNCHANGED deskVars
    /\ UNCHANGED supVars
    /\ UNCHANGED callVars

ApplyParseHeight ==
    /\ cin[1] = "parse_height"
    /\ CodecReturns(parse_height(cin[2]))

ApplyCreateHeightCommand ==
    /\ cin[1] = "create_height_command"
    /\ CodecReturns(create_height_command(cin[2]))

ApplyCreateCommand ==
    /\ cin[1] = "create_command"
    /\ CodecReturns(create_command(cin[2]))

ApplyRegister ==
    /\ cin[1] = "register_callback"
    /\ CodecReturns(Registered(cin[2], cin[3]))

ApplyUnregister ==
    /\ cin[1] = "unregister_callback"
    /\ CodecReturns(Unregistered(cin[2], cin[3]))

NextCodec ==
    \/ ApplyParseHeight
    \/ ApplyCreateHeightCommand
    \/ ApplyCreateCommand
    \/ ApplyRegister
    \/ ApplyUnregister

CodecSpec == InitCodec /\ [][NextCodec]_vars

\* ==== properties ====

InLog(e) == \E i \in 1..Len(log) : log[i] = e

OpensInLog(q) == Cardinality({i \in 1..Len(q) : q[i] = "open"})

Returns == pc # "done" /\ pc' = "done"

Moves == {"move_up", "move_down", "move_to_height"}

\* C1: when connect() returns successfully linkState is Connected, and a
\* link loss reported by the transport leaves linkState Disconnected and
\* isMoving false with the height reading unchanged.
C1_ConnectThenLoss ==
    [][ /\ (Returns /\ op' = "connect" /\ result' = "ok") => linkState' = "Connected"
        /\ (LinkLossCurrent \/ LinkLossStale) =>
              /\ linkState' = "Disconnected"
              /\ ~is_moving'
              /\ raw_height' = raw_height
              /\ current_height' = current_height ]_vars

\* C2: a move_up() issued while Disconnected makes exactly one connection
\* attempt, and when it fails with the ConnectionError of a failed reconnect
\* linkState is Disconnected at the return.
C2_FailedReconnectStaysDisconnected ==
    [][ (Returns /\ op' = "move_up" /\ result' = "ConnectionError") =>
            /\ OpensInLog(log') = 1
            /\ linkState' = "Disconnected" ]_vars

\* C3: a move command that failed with the ConnectionError of a failed
\* reconnect has not turned isMoving on.
C3_FailedMoveKeepsMotion ==
    (pc = "done" /\ op \in Moves /\ result = "ConnectionError") => (is_moving => pre_moving)

\* C4: when disconnect() was called with the desk moving and the link is
\* still up at the moment it closes the session, the STOP frame has been
\* handed to the transport earlier in that call.
C4_StopBeforeClose ==
    [][ ( /\ op' = "disconnect"
          /\ ~InLog("close")
          /\ InLog("close")'
          /\ pre_moving
          /\ is_connected ) => InLog("write:STOP") ]_vars

\* A disconnect() that found the desk moving wrote STOP and then closed.
C4_Witness ==
    /\ op = "disconnect"
    /\ pre_moving
    /\ log = <<"write:STOP", "close">>

\* C5: disconnect() returns normally whatever its stop() did: the session has
\* been closed after the STOP write, linkState is Disconnected and isMoving
\* is false.
C5_DisconnectAbsorbsStopFailure ==
    (pc = "done" /\ op = "disconnect") =>
        /\ result = "ok"
        /\ linkState = "Disconnected"
        /\ ~is_moving
        /\ (InLog("write:STOP") => log[Len(log)] = "close")

\* disconnect() has returned after its STOP write raised.
C5_Witness ==
    /\ pc = "done"
    /\ op = "disconnect"
    /\ log = <<"write:STOP", "raised", "close">>

\* C6: from the first step of disconnect() on the reconnect task takes no
\* step of its loop, and once disconnect() has returned, until the caller
\* issues another operation, linkState is Disconnected and no task exists.
C6_NoSupervisorAfterDisconnect ==
    /\ (op = "disconnect") =>
           sup \notin {"start", "connecting", "subscribing", "sleep", "backoff"}
    /\ (op = "disconnect" /\ pc = "done") =>
           /\ linkState = "Disconnected"
           /\ sup = "none"
           /\ reconnect_task = "None"

\* disconnect() has returned, having closed a session, while the device is
\* in range.
C6_Witness ==
    /\ pc = "done"
    /\ op = "disconnect"
    /\ client = "closed"
    /\ reachable

\* C7: when from some point on the controller stays connect()ed (its
\* reconnect task is in place), the caller is idle and the device is in
\* range, linkState is Connected again and again: every loss is repaired by
\* the task alone.
C7_SupervisorReconnects ==
    (<>[](reachable /\ reconnect_task = "task" /\ pc = "idle"))
        => []<>(linkState = "Connected")

\* The link is down while the task sleeps and the caller is idle.
C7_Witness ==
    /\ sup = "sleep"
    /\ pc = "idle"
    /\ linkState = "Disconnected"
    /\ client = "down"
    /\ reachable

\* C8 as stated: every failed handshake, that of connect() included, leaves
\* the reconnect task at the start of its 5-unit backoff, and the task leaves
\* the backoff only when the 5 units have passed.
C8_Original ==
    [][ /\ ((CallerConnectDone \/ SupConnectDone) /\ ~reachable) =>
               (sup' = "backoff" /\ supSlept' = 0)
        /\ (sup = "backoff" /\ sup' \notin {"backoff", "cancelling"}) =>
               supSlept = BACKOFF ]_vars

\* C8 amended: a failed handshake of the reconnect task leaves the task at
\* the start of its 5-unit backoff, and the task leaves the backoff, other
\* than by cancellation, only when the 5 units have passed; a failed
\* handshake of the caller starts no task and no backoff.
C8_SupervisedRetryAfterBackoff ==
    [][ /\ (SupConnectDone /\ ~reachable) => (sup' = "backoff" /\ supSlept' = 0)
        /\ (CallerConnectDone /\ ~reachable) =>
               UNCHANGED <<sup, supSlept, reconnect_task>>
        /\ (sup = "backoff" /\ sup' \notin {"backoff", "cancelling"}) =>
               (supSlept = BACKOFF /\ sup' \in {"connecting", "sleep"}) ]_vars

\* The backoff after a failed handshake of the task has run out; the retry
\* is due.
C8_Witness ==
    /\ sup = "backoff"
    /\ supSlept = BACKOFF
    /\ client = "down"
    /\ ~is_connected

C10_RearmedAfterReconnect ==
    (is_connected /\ rearm /\ callbacks # <<>>
        /\ sup # "subscribing" /\ pc # "subscribing") => armed

\* The frame handled by the step just taken, and what the decoder made of it.
Handled == notified # <<>>

HandledHeight == parse_height(notified[1])

\* C11: handling a valid frame invokes every registered subscriber exactly
\* once, in registration order, also when subscribers raise; link state,
\* motion state, subscriber list and the decoded height are what they are
\* without the raise.
C11_EverySubscriberOnceInOrder ==
    [][(notified' # <<>> /\ parse_height(notified'[1]) # None) =>
          /\ Len(delivered') = Len(callbacks)
          /\ \A i \in 1..Len(callbacks) : delivered'[i].cb = callbacks[i]
          /\ callbacks' = callbacks
          /\ is_connected' = is_connected
          /\ is_moving' = is_moving
          /\ raw_height' = parse_height(notified'[1])]_vars

C11_Witness ==
    /\ Handled
    /\ HandledHeight # None
    /\ Len(callbacks) = 2
    /\ callbacks[1] \in raisedBy
    /\ Len(delivered) = 2
    /\ delivered[2].cb = callbacks[2]

\* C12: a frame the decoder rejects is discarded: no subscriber is invoked
\* for it.
C12_MalformedNeverDelivered ==
    (Handled /\ HandledHeight = None) => delivered = <<>>

\* C13: after an accepted frame the height observer is the decoded raw height
\* plus the configured offset.
C13_HeightIsRawPlusOffset ==
    (Handled /\ HandledHeight # None) =>
        current_height = <<HandledHeight[1] + height_offset>>

\* C14: the height observer is None from every (re)connection until a valid
\* frame arrives: it is None before any connection, and None again whenever
\* the link becomes Connected.
C14_UnknownUntilFirstFrame ==
    [][(~is_connected /\ is_connected') => current_height' = None]_vars

\* C14 as amended: the height observer is None until the first valid frame
\* after the controller is created, and from then on only a valid frame
\* changes it: it is kept across link losses and reconnections.
C14_UnknownUntilFirstFrameEver ==
    /\ current_height = <<>>
    /\ [][current_height' # current_height =>
            (notified' # <<>> /\ parse_height(notified'[1]) # <<>>)]_vars

\* The reconnect task has reopened the link and has not armed it yet; the
\* height of the previous session is still reported.
C14_Witness ==
    /\ sup = "subscribing"
    /\ is_connected
    /\ ~armed
    /\ current_height # <<>>

\* C15: after a successful move_up the motion observers report moving upwards,
\* after a successful move_down moving downwards.
C15_DirectionFollowsCommand ==
    (pc = "done" /\ result = "ok" /\ is_moving) =>
        /\ op = "move_up" => (is_opening = "True" /\ is_closing = "False")
        /\ op = "move_down" => (is_closing = "True" /\ is_opening = "False")

Returned(fn) == cin[1] = fn /\ cout # <<>>

AllDigits(f) == \A i \in 1..Len(f) : f[i] >= 48 /\ f[i] <= 57

Decimal4(f) == (f[1] - 48) * 1000 + (f[2] - 48) * 100 + (f[3] - 48) * 10 + (f[4] - 48)

\* C17: the decoder accepts a frame exactly when it is four ASCII decimal
\* digits, and then yields their decimal value (in tenths); every other
\* frame yields None.
C17_AcceptsExactlyFourDigits ==
    Returned("parse_height") =>
        cout[1] = IF Len(cin[2]) = 4 /\ AllDigits(cin[2]) THEN <<Decimal4(cin[2])>>
                                                         ELSE <<>>

\* Bit i of the byte x.
Bit(x, i) == (x \div (2 ^ i)) % 2

\* C18: the absolute-height frame is the frame of clamp(h, 650, 1300): targets
\* at or below 650 give the frame of 650, targets at or above 1300 the frame
\* of 1300, and in between HB * 256 + LB is the target itself.
C18_FramesClampedTarget ==
    Returned("create_height_command") =>
        LET h == cin[2]
            frame == cout[1]
        IN /\ h <= 650 => frame = <<166, 168, 1, 2, 138, 0, 0, 137, 255>>
           /\ h >= 1300 => frame = <<166, 168, 1, 5, 20, 0, 0, 16, 255>>
           /\ (650 <= h /\ h <= 1300) => frame[4] * 256 + frame[5] = h

C18_Witness ==
    /\ Returned("create_height_command")
    /\ cin[2] > 1300
    /\ cout[1][4] * 256 + cout[1][5] = 1300

C20_CommandFrameVerifies ==
    Returned("create_command") =>
        LET cmd == cin[2]
            frame == cout[1]
        IN /\ cmd \in {32, 64, 0}
           /\ frame = <<165, 0, cmd, 255 - cmd, 255>>
           /\ \A i \in 0..7 :
                 Bit(frame[4], i) = (Bit(frame[5], i) + Bit(frame[3], i)) % 2

C20_Witness ==
    /\ cin = <<"create_command", 32>>
    /\ cout = << <<165, 0, 32, 223, 255>> >>

WritesInLog(q) ==
    Cardinality({i \in 1..Len(q) : q[i] \in {"write:UP", "write:DOWN", "write:STOP", "write:HEIGHT"}})

\* C21: the frame move_to_height hands to the transport is the absolute-height
\* frame of the target in tenths (hundredths / 10, fraction dropped) clamped
\* to 650..1300: 200 cm gives the frame of 1300, 50 cm the frame of 650; a
\* successful call has handed over exactly one frame.
C21_MoveToHeightFramesTarget ==
    [][ /\ (op' = "move_to_height" /\ inflight' # inflight /\ inflight' # <<>>) =>
              LET mm == IF arg' < 6500 THEN 650
                        ELSE IF arg' > 13000 THEN 1300 ELSE arg' \div 10
                  frame == inflight'
              IN /\ Len(frame) = 9
                 /\ frame[1] = 166 /\ frame[2] = 168 /\ frame[3] = 1
                 /\ frame[4] * 256 + frame[5] = mm
                 /\ frame[5] \in 0..255
                 /\ frame[6] = 0 /\ frame[7] = 0 /\ frame[9] = 255
                 /\ \A i \in 0..7 :
                       Bit(frame[8], i) = (Bit(1, i) + Bit(frame[4], i) + Bit(frame[5], i)) % 2
                 /\ arg' = 20000 => frame = <<166, 168, 1, 5, 20, 0, 0, 16, 255>>
                 /\ arg' = 5000 => frame = <<166, 168, 1, 2, 138, 0, 0, 137, 255>>
        /\ (Returns /\ op' = "move_to_height" /\ result' = "ok") =>
              (WritesInLog(log') = 1 /\ InLog("write:HEIGHT")') ]_vars

\* move_to_height(50.0) has handed the frame of 650 to the transport.
C21_Witness ==
    /\ op = "move_to_height"
    /\ pc = "writing"
    /\ arg = 5000
    /\ inflight = <<166, 168, 1, 2, 138, 0, 0, 137, 255>>

\* C22: beep, lock, unlock and factory_reset end at once with
\* NotImplementedError, whatever the link state; no transport call is made
\* and link state, motion state, heights and callbacks are as before.
C22_CloudOpsAlwaysFail ==
    [][(pc = "idle" /\ op' \in CloudOps) =>
          /\ pc' = "done"
          /\ result' = "NotImplementedError"
          /\ log' = <<>>
          /\ inflight' = <<>>
          /\ linkState' = linkState
          /\ UNCHANGED <<client, is_moving, raw_height, current_height, callbacks>>]_vars

\* beep() has failed on a connected, moving desk.
C22_Witness ==
    /\ pc = "done"
    /\ op = "beep"
    /\ result = "NotImplementedError"
    /\ linkState = "Connected"
    /\ is_moving

\* C23: the subscriber list keeps insertion order under subscribe and
\* unsubscribe: subscribing a new handler appends it at the end and
\* subscribing a registered one changes nothing; unsubscribing a handler that
\* is not registered returns the list unchanged, and unsubscribing a
\* registered one leaves exactly the other handlers, in their old order.  No
\* call leaves a handler in the list twice.
Others(q, cb) == SelectSeq(q, LAMBDA e : e # cb)

C23_SubscriberOrderKept ==
    /\ Returned("register_callback") =>
          /\ SubSeq(cout[1], 1, Len(cin[2])) = cin[2]
          /\ Others(cout[1], cin[3]) = Others(cin[2], cin[3])
          /\ Len(cout[1]) = Len(Others(cin[2], cin[3])) + 1
          /\ InSeq(cin[3], cout[1])
    /\ Returned("unregister_callback") =>
          /\ cout[1] = Others(cin[2], cin[3])
          /\ ~InSeq(cin[3], cin[2]) => cout[1] = cin[2]
    /\ (Returned("register_callback") \/ Returned("unregister_callback")) =>
          \A i, j \in 1..Len(cout[1]) : i # j => cout[1][i] # cout[1][j]

\* A handler in the middle of three is removed; the two others keep their order.
C23_Witness ==
    /\ Returned("unregister_callback")
    /\ cin[2] = <<3, 1, 2>>
    /\ cin[3] = 1
    /\ cout[1] = <<3, 2>>

C25_HeightSetBeforeSubscribers ==
    [][(notified' # <<>> /\ parse_height(notified'[1]) # None) =>
          \A i \in 1..Len(delivered') :
              /\ delivered'[i].raw = parse_height(notified'[1])
              /\ delivered'[i].saw = parse_height(notified'[1])]_vars

\* Two subscribers have run for an accepted frame and both read its height.
C25_Witness ==
    /\ Handled
    /\ HandledHeight # None
    /\ Len(delivered) = 2
    /\ \A i \in 1..2 : delivered[i].raw = HandledHeight /\ raw_height = HandledHeight

\* A frame no decoder can read as a height: not four bytes long, or holding a
\* letter or a byte outside ASCII.
Unparseable(f) ==
    \/ Len(f) # 4
    \/ \E i \in 1..Len(f) : f[i] \in (65..90) \cup (97..122) \/ f[i] >= 128

\* C26: an unparseable frame is not a transport error: handling it leaves the
\* raw and the corrected height, the link state (flag, session and its
\* notifications) and is_moving exactly as they were.
C26_UnparseableChangesNothing ==
    [][(notified' # <<>> /\ Unparseable(notified'[1])) =>
          /\ raw_height' = raw_height
          /\ current_height' = current_height
          /\ linkState' = linkState
          /\ is_connected_flag' = is_connected_flag
          /\ client' = client
          /\ armed' = armed
          /\ is_moving' = is_moving]_vars

\* An unparseable frame has been handled while the desk is moving on an open
\* link and a height is known; all three are still there.
C26_Witness ==
    /\ Handled
    /\ Unparseable(notified[1])
    /\ raw_height # None
    /\ current_height = raw_height
    /\ is_connected
    /\ is_moving

\* C27: move_up_for / move_down_for reaches its suspension only from the
\* successful write of the UP / DOWN frame; the suspension ends only by
\* issuing stop(), whatever happened meanwhile: the STOP frame goes to the
\* transport when the link is up and the reconnect of the command path is
\* started when it is not; and a stop() that succeeds ends the call with
\* is_moving false.
C27_TimedMoveAlwaysStops ==
    [][/\ (pc # "t_sleep" /\ pc' = "t_sleep") =>
              /\ pc = "writing"
              /\ op \in TimedMoves
              /\ inflight =
                    create_command(IF op = "move_up_for" THEN CMD_UP ELSE CMD_DOWN)
       /\ (pc = "t_sleep" /\ pc' # "t_sleep") =>
              /\ op' \in TimedStops
              /\ is_connected =>
                    (pc' = "writing" /\ inflight' = create_command(CMD_STOP))
              /\ ~is_connected =>
                    (pc' = "connecting" /\ client' = "pending"
                       /\ log' = Append(log, "open"))
       /\ (op' \in TimedStops /\ pc' = "done" /\ result' = "ok") => ~is_moving'
       /\ (op \in TimedMoves \cup TimedStops /\ pc' = "done" /\ result' = "ok") =>
              (op \in TimedStops /\ InLog("write:STOP"))]_vars

\* The link was lost during the suspension of move_up_for; its stop() went
\* through the reconnect, wrote the STOP frame and left the desk at rest.
C27_Witness ==
    /\ op = "move_up_for/stop"
    /\ pc = "done"
    /\ result = "ok"
    /\ log = <<"write:UP", "open", "write:STOP">>
    /\ ~is_moving

\* C28: when disconnect() cancels the reconnect task while the task's
\* connection attempt is in flight, the attempt never turns the link
\* Connected: no step taken during disconnect() does; the teardown goes on
\* to close the half-opened session, which is the one the controller holds,
\* and that session never opens; and disconnect() returns with the link
\* Disconnected and is_moving false.
C28_CancelledAttemptNeverConnects ==
    [][/\ (op = "disconnect" /\ op' = "disconnect") =>
              (is_connected' => is_connected)
       /\ (pc = "d_await" /\ pc' # "d_await" /\ client = "pending") =>
              /\ sup = "cancelled"
              /\ pc' = "d_close"
              /\ callCur'
              /\ client' = "pending"
              /\ log' = Append(log, "close")
       /\ (pc = "d_close" /\ client = "pending") => client' \in {"pending", "closed"}
       /\ (op = "disconnect" /\ pc # "done" /\ pc' = "done") =>
              /\ result' = "ok"
              /\ linkState' = "Disconnected"
              /\ ~is_connected_flag'
              /\ ~is_moving']_vars

\* The task was cancelled in the middle of its own connection attempt: the
\* task is gone, its session never opened, and the teardown is closing it.
C28_Witness ==
    /\ op = "disconnect"
    /\ pc = "d_close"
    /\ log = <<"close">>
    /\ reconnect_task = "None"
    /\ supCur
    /\ callCur
    /\ client = "pending"
    /\ ~is_connected

\* C29: at every instant at most one transport session is open, and it is
\* the one the controller holds (self._client): no session opened by a
\* reconnect stays open after the controller has let go of it.
C29_OnlyCurrentSessionOpen == leaked = 0

\* C30: the disconnected callback of a session that is no longer the
\* controller's current session changes neither the link state nor is_moving.
C30_StaleLossChangesNothing ==
    [][LinkLossStale =>
          /\ linkState' = linkState
          /\ is_moving' = is_moving]_vars

\* The _monitor_connection tasks that are alive.
TasksAlive == (IF SupAlive THEN 1 ELSE 0) + orphans

\* C31: at most one _monitor_connection task is alive at any instant,
\* whatever the interleaving of connect(), disconnect(), the commands and the
\* link-loss callbacks.
C31_AtMostOneSupervisor == TasksAlive <= 1

C33_NoSubscriberSkipped ==
    [][notified' # <<>> =>
          \A h \in Handlers :
              (InSeq(h, callbacks) /\ InSeq(h, callbacks')) =>
                  Cardinality({i \in 1..Len(delivered') : delivered'[i].cb = h}) = 1]_vars

====
